---- MODULE Spec2Model ----
(***************************************************************************)
(* A model of pydocs' introspection engine (src/pydocs/inspector.py and    *)
(* src/pydocs/models.py): dotted-path resolution, classification,          *)
(* namespace and class inspection, and the result envelope.                *)
(*                                                                         *)
(* Strings are sequences of one-character strings, so that split, join,    *)
(* startswith, endswith and isupper are computed as Python computes them.  *)
(* Optional values are sequences of length 0 (None) or 1.                  *)
(* The reflection provider (importlib, getattr, inspect) is the            *)
(* environment: its answers are data of the state (sys_modules and the     *)
(* entity records), drawn from bounded sets by each specification's Init.  *)
(***************************************************************************)
EXTENDS Integers, Sequences, FiniteSets, TLC

VARIABLES
    pc,               \* "start" before the call of the specification, "done" after
    sys_modules,      \* the provider's answer to import_module, by module name
    path,             \* inspect_path / resolve_dotted_path argument
    include_private,  \* filter flag
    include_imported, \* filter flag
    obj,              \* the entity handed to classify_object / inspect_module / inspect_class
    name,             \* the binding name handed to classify_object
    result            \* what the call returned or raised

vars == <<pc, sys_modules, path, include_private, include_imported, obj, name, result>>

----------------------------------------------------------------------------
(* Bounds of the model *)

\* most segments of a dotted path
MaxParts == 3
\* most characters of a binding name
MaxNameLen == 2
\* most bindings of an enumerated namespace
MaxMembers == 2
\* most module names the provider knows when inspect_path is called
MaxModules == 1
\* most lines of a source text, and the latest line it starts at
MaxLines == 3
\* most parameters of a callable
MaxParams == 3

----------------------------------------------------------------------------
(* Strings *)

Sep == "."
NameChars == {"a", "A", "_"}

None == <<>>
Some(x) == <<x>>

\* str.startswith / str.endswith
StartsWith(s, p) == Len(s) >= Len(p) /\ SubSeq(s, 1, Len(p)) = p
EndsWith(s, p) == Len(s) >= Len(p) /\ SubSeq(s, Len(s) - Len(p) + 1, Len(s)) = p

\* str.isupper: at least one cased character and no lower-case one
IsUpper(s) ==
    /\ \E k \in 1..Len(s) : s[k] = "A"
    /\ \A k \in 1..Len(s) : s[k] # "a"

\* code points, for the ordering sorted() uses
Ord(c) == CASE c = "." -> 46 [] c = "A" -> 65 [] c = "_" -> 95 [] c = "a" -> 97

RECURSIVE StrLess(_, _)
StrLess(s, t) ==
    IF t = <<>> THEN FALSE
    ELSE IF s = <<>> THEN TRUE
    ELSE IF Head(s) # Head(t) THEN Ord(Head(s)) < Ord(Head(t))
    ELSE StrLess(Tail(s), Tail(t))

RECURSIVE SplitAcc(_, _, _)
SplitAcc(s, cur, acc) ==
    IF s = <<>> THEN Append(acc, cur)
    ELSE IF Head(s) = Sep THEN SplitAcc(Tail(s), <<>>, Append(acc, cur))
    ELSE SplitAcc(Tail(s), Append(cur, Head(s)), acc)

\* path.split(".")
Split(s) == SplitAcc(s, <<>>, <<>>)

RECURSIVE Join(_)
\* ".".join(parts)
Join(parts) ==
    IF parts = <<>> THEN <<>>
    ELSE IF Len(parts) = 1 THEN parts[1]
    ELSE parts[1] \o <<Sep>> \o Join(Tail(parts))

\* parts[-1]
Last(parts) == parts[Len(parts)]

\* all names of 1..n characters
NamesUpTo(n) == UNION {[1..k -> NameChars] : k \in 1..n}

----------------------------------------------------------------------------
(* Failures: Python exception classes, and what a call returns or raises *)

ExcKinds == {"ImportError", "ModuleNotFoundError", "AttributeError",
             "ValueError", "TypeError", "OSError", "RuntimeError"}

\* isinstance(e, cls) for the except clauses of the engine
IsInstance(exc, cls) ==
    \/ cls = "Exception"
    \/ exc = cls
    \/ exc = "ModuleNotFoundError" /\ cls = "ImportError"

Return(v) == [ok |-> TRUE, val |-> v]
Raise(exc, msg) == [ok |-> FALSE, exc |-> exc, msg |-> msg]

\* a message is <<literal text, interpolated string>>; str(e) is their concatenation
Msg(text) == <<text, <<>>>>
MsgIsEmpty(m) == m[1] = "" /\ m[2] = <<>>

----------------------------------------------------------------------------
(* Entities of the reflection provider *)

\* the type tests of classify_object, in the order it applies them
Tests == {"ismodule", "has_path", "isclass", "isbuiltin", "isfunction", "ismethod",
          "classmethod", "staticmethod", "property", "scalar"}

\* the per-entity provider step that raises a failure no extractor absorbs
Faults == {"none", "module", "doc", "sig"}

\* an entity: the tests it passes, its own __name__, its __module__ (optional),
\* its bindings (a namespace, sorted by name as inspect.getmembers lists
\* them) or attribute table (a type), and how the per-entity provider queries
\* answer: doc ("text" or "none"), sig ("params", or the failure
\* inspect.signature raises), params (the provider's parameter list), fault
\* (the query that raises a RuntimeError), repr_len (the length of repr(obj),
\* -1 when repr raises), typename_len (the length of type(obj).__name__),
\* source and file ("text"/"path", or the failure the source queries raise),
\* the line span, and for a type its bases, ancestor order and abstract flag
Entity(tests, nm, mod, members, attrs) ==
    [tests |-> tests, name |-> nm, module |-> mod, members |-> members,
     attrs |-> attrs, callable |-> tests \cap {"isclass", "isbuiltin", "isfunction", "ismethod"} # {},
     doc |-> "text", sig |-> "params", params |-> <<>>, fault |-> "none",
     repr_len |-> 1, typename_len |-> 3,
     source |-> "TypeError", file |-> "TypeError", start_line |-> 1, nlines |-> 1,
     submodules |-> <<>>, bases |-> <<>>, mro |-> <<>>, is_abstract |-> FALSE]

Leaf(tests, mod) == Entity(tests, <<>>, mod, <<>>, <<>>)

ScalarObj == Leaf({"scalar"}, None)
OtherObj == Leaf({}, None)
FuncObj(mod) == Leaf({"isfunction"}, Some(mod))
BuiltinObj(mod) == Leaf({"isbuiltin"}, Some(mod))
MethodObj(mod) == Leaf({"ismethod"}, Some(mod))
ClassObj(nm, mod, attrs) == Entity({"isclass"}, nm, Some(mod), <<>>, attrs)
ModuleObj(nm, members) == Entity({"ismodule"}, nm, None, members, <<>>)
PackageObj(nm, members, subs) ==
    [Entity({"ismodule", "has_path"}, nm, None, members, <<>>) EXCEPT !.submodules = subs]

\* one row of inspect.classify_class_attrs: name, role, whether the defining
\* class is cls itself, and the attribute's value
Attr(nm, kind, own, o) == [name |-> nm, kind |-> kind, own |-> own, object |-> o]

----------------------------------------------------------------------------
(* Provider calls *)

\* importlib.import_module(module_path): an empty name is a ValueError and a
\* leading separator (a relative name without a package) a TypeError before
\* any lookup; a name the provider does not know is a ModuleNotFoundError
import_module(mods, n) ==
    IF n = <<>> THEN Raise("ValueError", Msg("Empty module name"))
    ELSE IF Head(n) = Sep THEN Raise("TypeError", Msg("the 'package' argument is required"))
    ELSE IF n \in DOMAIN mods THEN mods[n]
    ELSE Raise("ModuleNotFoundError", <<"No module named ", n>>)

\* getattr(obj, attr): a binding of a namespace or an attribute of a type
getattr(o, attr) ==
    IF \E k \in 1..Len(o.members) : o.members[k][1] = attr
    THEN Return((CHOOSE b \in {o.members[k] : k \in 1..Len(o.members)} : b[1] = attr)[2])
    ELSE IF \E k \in 1..Len(o.attrs) : o.attrs[k].name = attr
    THEN Return((CHOOSE a \in {o.attrs[k] : k \in 1..Len(o.attrs)} : a.name = attr).object)
    ELSE Raise("AttributeError", <<"no attribute ", attr>>)

RECURSIVE Traverse(_, _)
\* obj = getattr(obj, attr): a failure leaves the loop, a value goes on
TraverseRest(v, rest) == IF v.ok THEN Traverse(v.val, rest) ELSE v

\* for attr in parts[i:]: obj = getattr(obj, attr)
Traverse(o, attrs) ==
    IF attrs = <<>> THEN Return(o)
    ELSE TraverseRest(getattr(o, Head(attrs)), Tail(attrs))

----------------------------------------------------------------------------
(* resolve_dotted_path *)

\* return obj, module_path, parts[i:]
Resolved(o, parts, i) ==
    IF o.ok
    THEN Return([obj |-> o.val, module_path |-> Join(SubSeq(parts, 1, i)),
                 attrs |-> SubSeq(parts, i + 1, Len(parts))])
    ELSE o

\* obj = module, then the traversal of parts[i:]
TraverseFrom(m, parts, i) ==
    IF m.ok THEN Traverse(m.val, SubSeq(parts, i + 1, Len(parts))) ELSE m

\* the body of the try block for candidate i
TryCandidate(mods, parts, i) ==
    Resolved(TraverseFrom(import_module(mods, Join(SubSeq(parts, 1, i))), parts, i),
             parts, i)

\* the except clauses of the loop: which failures abandon the candidate
CandidateAbandoned(exc) == IsInstance(exc, "ImportError") \/ IsInstance(exc, "AttributeError")

\* range(len(parts), 0, -1): the next candidate after i
NextCandidate(i) == i - 1

\* the first candidate of the scan
FirstShortest(parts) == 1
FirstCandidate(parts) == Len(parts)

RECURSIVE ResolveFrom(_, _, _, _)
\* except ImportError: continue / except AttributeError: continue
OrNextCandidate(r, mods, p, parts, i) ==
    IF r.ok THEN r
    ELSE IF CandidateAbandoned(r.exc) THEN ResolveFrom(mods, p, parts, NextCandidate(i))
    ELSE r

ResolveFrom(mods, p, parts, i) ==
    IF i < 1 \/ i > Len(parts) THEN Raise("ImportError", <<"Cannot resolve path: ", p>>)
    ELSE OrNextCandidate(TryCandidate(mods, parts, i), mods, p, parts, i)

resolve_dotted_path(mods, p) ==
    LET parts == Split(p) IN ResolveFrom(mods, p, parts, FirstCandidate(parts))

----------------------------------------------------------------------------
(* classify_object *)

MemberKind == {"MODULE", "PACKAGE", "CLASS", "FUNCTION", "METHOD", "CLASSMETHOD",
               "STATICMETHOD", "PROPERTY", "CONSTANT", "VARIABLE", "BUILTIN", "DATA"}

\* name and name.isupper() and isinstance(obj, (str, int, float, bool, NoneType, bytes, tuple))
IsConstantLike(o, nm) == nm # <<>> /\ IsUpper(nm) /\ "scalar" \in o.tests

classify_constant_first(o, nm) ==
    IF IsConstantLike(o, nm) THEN "CONSTANT"
    ELSE IF "ismodule" \in o.tests
    THEN (IF "has_path" \in o.tests THEN "PACKAGE" ELSE "MODULE")
    ELSE IF "isclass" \in o.tests THEN "CLASS"
    ELSE IF "isbuiltin" \in o.tests THEN "BUILTIN"
    ELSE IF "isfunction" \in o.tests THEN "FUNCTION"
    ELSE IF "ismethod" \in o.tests THEN "METHOD"
    ELSE IF "classmethod" \in o.tests THEN "CLASSMETHOD"
    ELSE IF "staticmethod" \in o.tests THEN "STATICMETHOD"
    ELSE IF "property" \in o.tests THEN "PROPERTY"
    ELSE "VARIABLE"

classify_object(o, nm) ==
    IF "ismodule" \in o.tests
    THEN (IF "has_path" \in o.tests THEN "PACKAGE" ELSE "MODULE")
    ELSE IF "isclass" \in o.tests THEN "CLASS"
    ELSE IF "isbuiltin" \in o.tests THEN "BUILTIN"
    ELSE IF "isfunction" \in o.tests THEN "FUNCTION"
    ELSE IF "ismethod" \in o.tests THEN "METHOD"
    ELSE IF "classmethod" \in o.tests THEN "CLASSMETHOD"
    ELSE IF "staticmethod" \in o.tests THEN "STATICMETHOD"
    ELSE IF "property" \in o.tests THEN "PROPERTY"
    ELSE IF IsConstantLike(o, nm) THEN "CONSTANT"
    ELSE "VARIABLE"

----------------------------------------------------------------------------
(* Per-entity extraction *)

\* getattr(obj, "__module__", None)
declaring_module(o) ==
    IF o.fault = "module" THEN Raise("RuntimeError", Msg("working outside of context"))
    ELSE Return(o.module)

\* inspect.getdoc(obj)
getdoc(o) ==
    IF o.fault = "doc" THEN Raise("RuntimeError", Msg(""))
    ELSE Return(IF o.doc = "text" THEN Some("doc") ELSE None)

\* inspect.signature(obj)
signature(o) ==
    IF o.fault = "sig" THEN Raise("RuntimeError", Msg("signature failed"))
    ELSE IF o.sig # "params" THEN Raise(o.sig, Msg("no signature found"))
    ELSE Return(o.params)

ParameterKind == {"POSITIONAL_ONLY", "POSITIONAL_OR_KEYWORD", "VAR_POSITIONAL",
                  "KEYWORD_ONLY", "VAR_KEYWORD"}

\* a kind_map that exchanges VAR_POSITIONAL and KEYWORD_ONLY
kind_map_exchanged(k) ==
    CASE k = 0 -> "POSITIONAL_ONLY"
      [] k = 1 -> "POSITIONAL_OR_KEYWORD"
      [] k = 2 -> "KEYWORD_ONLY"
      [] k = 3 -> "VAR_POSITIONAL"
      [] k = 4 -> "VAR_KEYWORD"

\* kind_map, from the provider's inspect.Parameter kinds (an IntEnum, 0..4)
kind_map(k) ==
    CASE k = 0 -> "POSITIONAL_ONLY"
      [] k = 1 -> "POSITIONAL_OR_KEYWORD"
      [] k = 2 -> "VAR_POSITIONAL"
      [] k = 3 -> "KEYWORD_ONLY"
      [] k = 4 -> "VAR_KEYWORD"

\* one ParameterInfo of the loop over sig.parameters
ParameterInfo(prm) ==
    [name |-> prm.name,
     kind |-> kind_map(prm.kind),
     annotation |-> IF prm.annotated THEN Some("annotation") ELSE None,
     default |-> IF prm.has_default THEN Some("repr") ELSE None,
     has_default |-> prm.has_default]

\* SignatureInfo(...), or None on except (ValueError, TypeError)
SignatureInfo(sig) ==
    IF sig.ok
    THEN Return(Some([parameters |-> [k \in 1..Len(sig.val) |-> ParameterInfo(sig.val[k])],
                      return_annotation |-> None,
                      raw_signature |-> Some("sig")]))
    ELSE IF sig.exc \in {"ValueError", "TypeError"} THEN Return(None)
    ELSE sig

extract_signature(o) == SignatureInfo(signature(o))

\* inspect.getfile(obj): the path, or the failure the provider raises
\* (TypeError for a built-in, OSError for a class of a namespace without file)
getfile(o) ==
    IF o.file = "path" THEN Return(Some("path"))
    ELSE Raise(o.file, Msg("source code not available"))

\* the except (OSError, TypeError) branch: try getfile / except TypeError
BuiltinSource(f) ==
    IF f.ok \/ f.exc = "TypeError"
    THEN Return([source |-> None,
                 file_path |-> IF f.ok THEN f.val ELSE None,
                 start_line |-> None, end_line |-> None, is_builtin |-> TRUE])
    ELSE f

\* extract_source
extract_source(o) ==
    IF o.source = "text"
    THEN Return([source |-> Some("text"), file_path |-> Some("path"),
                 start_line |-> Some(o.start_line),
                 end_line |-> Some(o.start_line + o.nlines - 1),
                 is_builtin |-> FALSE])
    ELSE IF o.source \in {"OSError", "TypeError"}
    THEN BuiltinSource(getfile(o))
    ELSE Raise(o.source, Msg("source lookup failed"))

\* max_len of _safe_repr
max_len == 80

\* _safe_repr: the rendering, by its form and its length
safe_repr(o) ==
    IF o.repr_len < 0 THEN [form |-> "placeholder", len |-> o.typename_len + 2]
    ELSE IF o.repr_len > max_len THEN [form |-> "truncated", len |-> (max_len - 3) + 3]
    ELSE [form |-> "full", len |-> o.repr_len]

----------------------------------------------------------------------------
(* Records of models.py *)

\* name.startswith("_") and name.startswith("__") and name.endswith("__")
IsPrivateName(nm) == StartsWith(nm, <<"_">>)
IsDunderName(nm) == StartsWith(nm, <<"_", "_">>) /\ EndsWith(nm, <<"_", "_">>)

\* the dataclass defaults of MemberInfo
MemberInfo(nm, kind, qualified_name) ==
    [variant |-> "MemberInfo", name |-> nm, kind |-> kind, qualified_name |-> qualified_name,
     docstring |-> None, signature |-> None, source |-> None,
     is_private |-> FALSE, is_dunder |-> FALSE, defining_module |-> None,
     is_imported |-> FALSE, value_repr |-> None]

\* f"{parent_path}.{name}"
Qualified(parent_path, nm) == parent_path \o <<Sep>> \o nm

\* the MemberInfo(...) construction, its arguments evaluated in order
MemberRecord(nm, kind, parent_path, is_imported, doc, sig) ==
    IF ~doc.ok THEN doc
    ELSE IF ~sig.ok THEN sig
    ELSE Return([MemberInfo(nm, kind, Qualified(parent_path, nm)) EXCEPT
                    !.docstring = doc.val,
                    !.signature = sig.val,
                    !.is_private = IsPrivateName(nm),
                    !.is_dunder = IsDunderName(nm),
                    !.is_imported = is_imported])

create_member_info(o, nm, kind, parent_path, is_imported) ==
    MemberRecord(nm, kind, parent_path, is_imported, getdoc(o),
                 IF o.callable THEN extract_signature(o) ELSE Return(None))

\* sorted(records, key=lambda r: r.name): a stable insertion sort
RECURSIVE InsertByName(_, _)
InsertByName(sorted, r) ==
    IF sorted = <<>> THEN <<r>>
    ELSE IF StrLess(r.name, Head(sorted).name) THEN <<r>> \o sorted
    ELSE <<Head(sorted)>> \o InsertByName(Tail(sorted), r)

RECURSIVE SortedByName(_)
SortedByName(rs) ==
    IF rs = <<>> THEN <<>>
    ELSE InsertByName(SortedByName(SubSeq(rs, 1, Len(rs) - 1)), rs[Len(rs)])

RECURSIVE InsertStr(_, _)
InsertStr(sorted, x) ==
    IF sorted = <<>> THEN <<x>>
    ELSE IF StrLess(x, Head(sorted)) THEN <<x>> \o sorted
    ELSE <<Head(sorted)>> \o InsertStr(Tail(sorted), x)

\* the list as the provider yields it
UnsortedStrs(xs) == xs

RECURSIVE SortedStrs(_)
\* sorted(submodules)
SortedStrs(xs) ==
    IF xs = <<>> THEN <<>>
    ELSE InsertStr(SortedStrs(SubSeq(xs, 1, Len(xs) - 1)), xs[Len(xs)])

----------------------------------------------------------------------------
(* inspect_class *)

\* a member_kind_map that has no entry, so that every role gets the default
member_kind_map_default(kind) == "VARIABLE"

\* member_kind_map.get(attr.kind, MemberKind.VARIABLE)
member_kind_map(kind) ==
    CASE kind = "method" -> "METHOD"
      [] kind = "class method" -> "CLASSMETHOD"
      [] kind = "static method" -> "STATICMETHOD"
      [] kind = "property" -> "PROPERTY"
      [] kind = "data" -> "DATA"
      [] OTHER -> "VARIABLE"

EmptyClassBuckets ==
    [methods |-> <<>>, class_methods |-> <<>>, static_methods |-> <<>>,
     properties |-> <<>>, class_variables |-> <<>>]

\* the if/elif chain that appends info to its bucket
AddToClassBucket(acc, a, info) ==
    CASE a.kind = "method" -> [acc EXCEPT !.methods = Append(@, info)]
      [] a.kind = "class method" -> [acc EXCEPT !.class_methods = Append(@, info)]
      [] a.kind = "static method" -> [acc EXCEPT !.static_methods = Append(@, info)]
      [] a.kind = "property" -> [acc EXCEPT !.properties = Append(@, info)]
      [] a.kind = "data" ->
            [acc EXCEPT !.class_variables =
                Append(@, [info EXCEPT !.value_repr = Some(safe_repr(a.object))])]
      [] OTHER -> acc

RECURSIVE ClassLoop(_, _, _, _, _)
\* the append of one row's record, then the rest of the rows
ClassNext(cls, qualified_name, incl_private, k, acc, info) ==
    IF info.ok
    THEN ClassLoop(cls, qualified_name, incl_private, k + 1,
                   AddToClassBucket(acc, cls.attrs[k], info.val))
    ELSE info

\* for attr in inspect.classify_class_attrs(cls), from row k on
ClassLoop(cls, qualified_name, incl_private, k, acc) ==
    IF k > Len(cls.attrs) THEN Return(acc)
    ELSE IF ~incl_private /\ StartsWith(cls.attrs[k].name, <<"_">>)
    THEN ClassLoop(cls, qualified_name, incl_private, k + 1, acc)
    ELSE ClassNext(cls, qualified_name, incl_private, k, acc,
                   create_member_info(cls.attrs[k].object, cls.attrs[k].name,
                                      member_kind_map(cls.attrs[k].kind), qualified_name,
                                      ~cls.attrs[k].own))

\* [b.__name__ for b in cls.__bases__ if b is not object]
BaseNames(cls) == SelectSeq(cls.bases, LAMBDA b : b # "object")
\* [c.__name__ for c in cls.__mro__[1:-1]]
MroNames(cls) == SubSeq(cls.mro, 2, Len(cls.mro) - 1)

\* the ClassInfo(...) construction after the loop
ClassInfo(cls, qualified_name, b, doc, sig) ==
    IF ~b.ok THEN b
    ELSE IF ~doc.ok THEN doc
    ELSE IF ~sig.ok THEN sig
    ELSE Return([variant |-> "ClassInfo", name |-> cls.name, kind |-> "CLASS",
                 qualified_name |-> qualified_name,
                 docstring |-> doc.val, signature |-> sig.val, source |-> None,
                 is_private |-> FALSE, is_dunder |-> FALSE,
                 defining_module |-> None, is_imported |-> FALSE,
                 value_repr |-> None,
                 bases |-> BaseNames(cls), mro |-> MroNames(cls),
                 methods |-> SortedByName(b.val.methods),
                 class_methods |-> SortedByName(b.val.class_methods),
                 static_methods |-> SortedByName(b.val.static_methods),
                 properties |-> SortedByName(b.val.properties),
                 class_variables |-> SortedByName(b.val.class_variables),
                 is_abstract |-> cls.is_abstract])

inspect_class(cls, qualified_name, incl_private) ==
    ClassInfo(cls, qualified_name,
              ClassLoop(cls, qualified_name, incl_private, 1, EmptyClassBuckets),
              getdoc(cls), extract_signature(cls))

----------------------------------------------------------------------------
(* inspect_module *)

\* pkgutil.iter_modules(module.__path__), any failure of it swallowed
discover_submodules(module) ==
    IF "has_path" \in module.tests /\ module.fault # "submodules" THEN module.submodules
    ELSE <<>>

EmptyModuleBuckets == [classes |-> <<>>, functions |-> <<>>, constants |-> <<>>, variables |-> <<>>]

\* the two filters of the member loop
KeepsPrivate(incl_private, nm) == FALSE
SkipsPrivate(incl_private, nm) == ~incl_private /\ StartsWith(nm, <<"_">>)
SkipsImported(incl_imported, is_imported) == ~incl_imported /\ is_imported

\* obj_module is not None and obj_module != module_name
IsImported(obj_module, module_name) == obj_module # None /\ obj_module[1] # module_name

\* classes.append(inspect_class(...))
AppendClass(acc, c) ==
    IF c.ok THEN Return([acc EXCEPT !.classes = Append(@, c.val)]) ELSE c

\* the append of the branch taken for a leaf kind, value_repr set for data
AppendLeaf(acc, o, kind, info) ==
    IF ~info.ok THEN info
    ELSE IF kind \in {"FUNCTION", "BUILTIN"}
    THEN Return([acc EXCEPT !.functions = Append(@, info.val)])
    ELSE IF kind = "CONSTANT"
    THEN Return([acc EXCEPT !.constants =
                    Append(@, [info.val EXCEPT !.value_repr = Some(safe_repr(o))])])
    ELSE Return([acc EXCEPT !.variables =
                    Append(@, [info.val EXCEPT !.value_repr = Some(safe_repr(o))])])

\* a chain whose last branch takes every remaining kind
AddToSomeBucket(acc, o, nm, kind, module_name, is_imported, incl_private) ==
    IF kind = "CLASS"
    THEN AppendClass(acc, inspect_class(o, Qualified(module_name, nm), incl_private))
    ELSE AppendLeaf(acc, o, kind, create_member_info(o, nm, kind, module_name, is_imported))

\* the if/elif chain on kind: the bucket a kept binding goes to, if any
AddToModuleBucket(acc, o, nm, kind, module_name, is_imported, incl_private) ==
    IF kind = "CLASS"
    THEN AppendClass(acc, inspect_class(o, Qualified(module_name, nm), incl_private))
    ELSE IF kind \in {"FUNCTION", "BUILTIN", "CONSTANT", "VARIABLE"}
    THEN AppendLeaf(acc, o, kind, create_member_info(o, nm, kind, module_name, is_imported))
    ELSE Return(acc)

\* one binding that passed the private and namespace filters
KeepOrSkip(acc, o, nm, module_name, is_imported, incl_private, incl_imported) ==
    IF SkipsImported(incl_imported, is_imported) THEN Return(acc)
    ELSE AddToModuleBucket(acc, o, nm, classify_object(o, nm), module_name,
                           is_imported, incl_private)

RECURSIVE ModuleLoop(_, _, _, _, _)
\* the buckets after one binding, then the rest of the bindings
ModuleNext(module, incl_private, incl_imported, k, added) ==
    IF added.ok THEN ModuleLoop(module, incl_private, incl_imported, k + 1, added.val)
    ELSE added

\* obj_module = getattr(obj, "__module__", None) and the rest of the loop body
ModuleStep(module, incl_private, incl_imported, k, acc, obj_module) ==
    IF ~obj_module.ok THEN obj_module
    ELSE ModuleNext(module, incl_private, incl_imported, k,
                    KeepOrSkip(acc, module.members[k][2], module.members[k][1],
                               module.name, IsImported(obj_module.val, module.name),
                               incl_private, incl_imported))

\* for name, obj in inspect.getmembers(module), from binding k on
ModuleLoop(module, incl_private, incl_imported, k, acc) ==
    IF k > Len(module.members) THEN Return(acc)
    ELSE IF SkipsPrivate(incl_private, module.members[k][1])
            \/ "ismodule" \in module.members[k][2].tests
    THEN ModuleLoop(module, incl_private, incl_imported, k + 1, acc)
    ELSE ModuleStep(module, incl_private, incl_imported, k, acc,
                    declaring_module(module.members[k][2]))

\* the ModuleInfo(...) construction after the loop
ModuleInfo(module, submodules, b, doc) ==
    IF ~b.ok THEN b
    ELSE IF ~doc.ok THEN doc
    ELSE Return([variant |-> "ModuleInfo", name |-> Last(Split(module.name)),
                 kind |-> IF submodules # <<>> THEN "PACKAGE" ELSE "MODULE",
                 qualified_name |-> module.name,
                 docstring |-> doc.val, signature |-> None, source |-> None,
                 is_private |-> FALSE, is_dunder |-> FALSE,
                 defining_module |-> None, is_imported |-> FALSE, value_repr |-> None,
                 is_package |-> (submodules # <<>>) \/ "has_path" \in module.tests,
                 file_path |-> Some("path"),
                 submodules |-> SortedStrs(submodules),
                 classes |-> SortedByName(b.val.classes),
                 functions |-> SortedByName(b.val.functions),
                 constants |-> SortedByName(b.val.constants),
                 variables |-> SortedByName(b.val.variables)])

inspect_module(module, incl_private, incl_imported) ==
    ModuleInfo(module, discover_submodules(module),
               ModuleLoop(module, incl_private, incl_imported, 1, EmptyModuleBuckets),
               getdoc(module))

----------------------------------------------------------------------------
(* inspect_path *)

HasSep(p) == \E k \in 1..Len(p) : p[k] = Sep

\* path.split(".")[-1] if "." in path else path
TerminalName(p) == IF HasSep(p) THEN Last(Split(p)) ELSE p
\* ".".join(path.split(".")[:-1]) if "." in path else ""
ParentPath(p) == IF HasSep(p) THEN Join(SubSeq(Split(p), 1, Len(Split(p)) - 1)) ELSE <<>>

\* info.source = extract_source(obj)
WithSource(m, src) ==
    IF ~m.ok THEN m
    ELSE IF ~src.ok THEN src
    ELSE Return([m.val EXCEPT !.source = Some(src.val)])

\* the else branch: a leaf MemberInfo with its source attached
inspect_leaf(o, p, kind) ==
    WithSource(create_member_info(o, TerminalName(p), kind, ParentPath(p), FALSE),
               extract_source(o))

\* the dispatch on kind
dispatch(o, p, kind, incl_private, incl_imported) ==
    IF kind \in {"MODULE", "PACKAGE"} THEN inspect_module(o, incl_private, incl_imported)
    ELSE IF kind = "CLASS" THEN inspect_class(o, p, incl_private)
    ELSE inspect_leaf(o, p, kind)

\* InspectionResult(target=path, resolved_path=path, kind=kind, info=info)
InspectionResult(p, kind, info) ==
    IF info.ok
    THEN Return([target |-> p, resolved_path |-> p, kind |-> kind,
                 info |-> info.val, error |-> None])
    ELSE info

\* kind = classify_object(obj, terminal name), then the dispatch
Inspected(r, p, incl_private, incl_imported) ==
    IF r.ok
    THEN InspectionResult(p, classify_object(r.val.obj, TerminalName(p)),
                          dispatch(r.val.obj, p, classify_object(r.val.obj, TerminalName(p)),
                                   incl_private, incl_imported))
    ELSE r

\* the try block
inspect_path_try(mods, p, incl_private, incl_imported) ==
    Inspected(resolve_dotted_path(mods, p), p, incl_private, incl_imported)

\* except Exception as e
HandlesOnlyImportError(exc) == IsInstance(exc, "ImportError")
Handles(exc) == IsInstance(exc, "Exception")

\* the degraded envelope of the except block
ErrorEnvelopeNoError(p, msg) ==
    [target |-> p, resolved_path |-> p, kind |-> "VARIABLE",
     info |-> MemberInfo(p, "VARIABLE", p), error |-> None]
ErrorEnvelope(p, msg) ==
    [target |-> p, resolved_path |-> p, kind |-> "VARIABLE",
     info |-> MemberInfo(p, "VARIABLE", p), error |-> Some(msg)]

\* try ... except Exception as e: the degraded envelope
OrErrorEnvelope(r, p) ==
    IF r.ok THEN r
    ELSE IF Handles(r.exc) THEN Return(ErrorEnvelope(p, r.msg))
    ELSE r

inspect_path(mods, p, incl_private, incl_imported) ==
    OrErrorEnvelope(inspect_path_try(mods, p, incl_private, incl_imported), p)

----------------------------------------------------------------------------
(* Inputs *)

NoValue == [ok |-> FALSE, exc |-> "", msg |-> Msg("")]
NoObj == OtherObj

\* the segments dotted paths are built from: the empty segment, a public
\* lower-case name, an upper-case name and a private name
PathSegs == {<<>>, <<"a">>, <<"A">>, <<"_", "a">>}
Paths == {Join(ps) : ps \in UNION {[1..n -> PathSegs] : n \in 1..MaxParts}}

\* the namespace fixture the provider loads under name n, as the module's own
\* name nm: a constant, a private function and a class with one data attribute
FixtureMembers(nm) ==
    << <<<<"A">>, ScalarObj>>,
       <<<<"_", "a">>, FuncObj(nm)>>,
       <<<<"a">>, ClassObj(<<"a">>, nm, <<Attr(<<"a">>, "data", TRUE, ScalarObj)>>)>> >>

\* the same namespace with a function whose documentation query raises
FaultyMembers(nm) ==
    << <<<<"A">>, ScalarObj>>,
       <<<<"a">>, [FuncObj(nm) EXCEPT !.fault = "doc"]>> >>

\* the name a namespace records for itself when it is loaded under another
\* name (as os.path is posixpath)
AliasName == <<"A", "a">>

\* what the provider can answer to a load of name n: a failure to find or
\* import it, a module body that raises, a module, a module that records
\* another name, a module with a failing member, a package with and without
\* submodules
LoadOutcome(n, c) ==
    CASE c = "missing" -> Raise("ModuleNotFoundError", <<"No module named ", n>>)
      [] c = "importerror" -> Raise("ImportError", <<"cannot import name ", n>>)
      [] c = "broken" -> Raise("RuntimeError", Msg(""))
      [] c = "module" -> Return(ModuleObj(n, FixtureMembers(n)))
      [] c = "alias" -> Return(ModuleObj(AliasName, FixtureMembers(AliasName)))
      [] c = "faulty" -> Return(ModuleObj(n, FaultyMembers(n)))
      [] c = "package" -> Return(PackageObj(n, FixtureMembers(n), <<<<"a">>, <<"A">>>>))
      [] c = "emptypackage" -> Return(PackageObj(n, <<>>, <<>>))

LoadChoices == {"missing", "importerror", "broken", "module", "emptypackage"}
InspectChoices == {"broken", "module", "alias", "faulty", "package", "emptypackage"}

\* the names resolve_dotted_path may load for path p
PrefixNames(p) == {Join(SubSeq(Split(p), 1, i)) : i \in 1..Len(Split(p))}

Worlds2(ns, choices) == {[n \in ns |-> LoadOutcome(n, c[n])] : c \in [ns -> choices]}
Worlds(p, choices) == Worlds2(PrefixNames(p), choices)

\* the worlds in which the provider knows at most k of the names
SparseWorlds(p, choices, k) ==
    {w \in Worlds(p, choices \cup {"missing"}) :
        Cardinality({n \in PrefixNames(p) : w[n].ok \/ w[n].exc # "ModuleNotFoundError"}) <= k}

\* the paths inspect_path is called with: the empty path and dotted paths of
\* a public, a private and an upper-case name
InspectSegs == {<<"a">>, <<"A">>, <<"_", "a">>}
InspectPaths ==
    {<<>>} \cup {Join(ps) : ps \in UNION {[1..n -> InspectSegs] : n \in 1..MaxParts}}

----------------------------------------------------------------------------
(* Specification of inspect_path: the default specification *)

Init ==
    /\ pc = "start"
    /\ path \in InspectPaths
    /\ sys_modules \in SparseWorlds(path, InspectChoices, MaxModules)
    /\ include_private \in BOOLEAN
    /\ include_imported \in BOOLEAN
    /\ obj = NoObj
    /\ name = <<>>
    /\ result = NoValue

Inspect ==
    /\ pc = "start"
    /\ pc' = "done"
    /\ result' = inspect_path(sys_modules, path, include_private, include_imported)
    /\ UNCHANGED <<sys_modules, path, include_private, include_imported, obj, name>>

Next == Inspect

Spec == Init /\ [][Next]_vars

(* Specification of inspect_module alone *)

\* the namespace under enumeration and another one
NsName == <<"a", ".", "_", "a">>
OtherNs == <<"A">>

FixtureAttrs ==
    << Attr(<<"_", "a">>, "method", TRUE, FuncObj(NsName)),
       Attr(<<"a">>, "data", FALSE, ScalarObj),
       Attr(<<"a", "a">>, "method", FALSE, FuncObj(OtherNs)) >>

\* the entities a binding of the namespace may hold
MemberEntities ==
    << ScalarObj, OtherObj,
       FuncObj(NsName), FuncObj(OtherNs), BuiltinObj(NsName),
       MethodObj(NsName),
       Leaf({"property"}, None),
       ClassObj(<<"a">>, NsName, FixtureAttrs),
       ClassObj(<<"A">>, OtherNs, <<>>),
       ModuleObj(OtherNs, <<>>),
       [FuncObj(NsName) EXCEPT !.fault = "doc"],
       [OtherObj EXCEPT !.fault = "module"],
       [ScalarObj EXCEPT !.repr_len = max_len + 1],
       [OtherObj EXCEPT !.repr_len = -1],
       [OtherObj EXCEPT !.repr_len = -1, !.typename_len = max_len - 1] >>

\* the names a binding may have, in the order sorted() gives them
MemberNames == << <<"A">>, <<"_", "_">>, <<"_", "a">>, <<"a">> >>

\* a name of MemberNames that the namespace does not bind
Unbound == 0

RECURSIVE TableOf(_, _)
\* the bindings a choice of entities (or Unbound) for MemberNames[k..] gives
TableOf(c, k) ==
    IF k > Len(MemberNames) THEN <<>>
    ELSE IF c[k] = Unbound THEN TableOf(c, k + 1)
    ELSE <<<<MemberNames[k], MemberEntities[c[k]]>>>> \o TableOf(c, k + 1)

\* inspect.getmembers: bindings of distinct names, sorted by name
MemberTables ==
    {TableOf(c, 1) :
        c \in {d \in [1..Len(MemberNames) -> (1..Len(MemberEntities)) \cup {0}] :
                 Cardinality({k \in 1..Len(MemberNames) : d[k] # 0}) <= MaxMembers}}

Namespaces ==
    {ModuleObj(NsName, m) : m \in MemberTables}
    \cup {PackageObj(NsName, m, <<<<"a">>, <<"A">>>>) : m \in MemberTables}

InitNamespace ==
    /\ pc = "start"
    /\ path = <<>>
    /\ sys_modules = <<>>
    /\ include_private \in BOOLEAN
    /\ include_imported \in BOOLEAN
    /\ obj \in Namespaces
    /\ name = <<>>
    /\ result = NoValue

InspectModule ==
    /\ pc = "start"
    /\ pc' = "done"
    /\ result' = inspect_module(obj, include_private, include_imported)
    /\ UNCHANGED <<sys_modules, path, include_private, include_imported, obj, name>>

NextNamespace == InspectModule

SpecNamespace == InitNamespace /\ [][NextNamespace]_vars

(* Specification of resolve_dotted_path alone *)

InitResolve ==
    /\ pc = "start"
    /\ path \in Paths
    /\ sys_modules \in Worlds(path, LoadChoices)
    /\ include_private = FALSE
    /\ include_imported = FALSE
    /\ obj = NoObj
    /\ name = <<>>
    /\ result = NoValue

Resolve ==
    /\ pc = "start"
    /\ pc' = "done"
    /\ result' = resolve_dotted_path(sys_modules, path)
    /\ UNCHANGED <<sys_modules, path, include_private, include_imported, obj, name>>

NextResolve == Resolve

SpecResolve == InitResolve /\ [][NextResolve]_vars

(* Specification of extract_source alone *)

\* the answers of inspect.getfile for an entity passing tests t: only for a
\* type does the provider raise OSError (a type of a namespace without file)
FileAnswers(t) == {"path", "TypeError"} \cup (IF "isclass" \in t THEN {"OSError"} ELSE {})

\* the entities extract_source is handed: a function, a type, a built-in and
\* a plain value, with each answer of the source and file queries
SourceEntities ==
    UNION {{[Leaf(t, None) EXCEPT !.source = src, !.file = f, !.start_line = l, !.nlines = n] :
              src \in {"text", "OSError", "TypeError"},
              f \in FileAnswers(t),
              l \in 1..MaxLines, n \in 1..MaxLines} :
           t \in {{"isfunction"}, {"isclass"}, {"isbuiltin"}, {}}}

InitSource ==
    /\ pc = "start"
    /\ path = <<>>
    /\ sys_modules = <<>>
    /\ include_private = FALSE
    /\ include_imported = FALSE
    /\ obj \in SourceEntities
    /\ name = <<>>
    /\ result = NoValue

Locate ==
    /\ pc = "start"
    /\ pc' = "done"
    /\ result' = extract_source(obj)
    /\ UNCHANGED <<sys_modules, path, include_private, include_imported, obj, name>>

NextSource == Locate

SpecSource == InitSource /\ [][NextSource]_vars

(* Specification of extract_signature alone *)

\* the provider's parameter kinds, in the order a signature must list them
ProviderKinds == 0..4

\* parameter names by position
ParamNames == << <<"a">>, <<"A">>, <<"_">>, <<"a", "a">> >>

\* the parameter lists inspect.signature can return: kinds in non-decreasing
\* order, at most one variadic parameter of each sort
ParameterLists ==
    UNION {{[k \in 1..n |-> [name |-> ParamNames[k], kind |-> ks[k],
                              has_default |-> ds[k], annotated |-> an[k]]] :
               ks \in {c \in [1..n -> ProviderKinds] :
                          \A i, j \in 1..n : i < j =>
                              /\ c[i] <= c[j]
                              /\ c[i] \in {2, 4} => c[i] < c[j]},
               ds \in [1..n -> BOOLEAN], an \in [1..n -> BOOLEAN]} :
           n \in 0..MaxParams}

\* the callables extract_signature is handed: introspectable ones, ones the
\* provider cannot introspect, and one whose introspection breaks
Callables ==
    {[FuncObj(<<"a">>) EXCEPT !.params = ps] : ps \in ParameterLists}
    \cup {[BuiltinObj(<<"a">>) EXCEPT !.sig = e] : e \in {"ValueError", "TypeError"}}
    \cup {[FuncObj(<<"a">>) EXCEPT !.fault = "sig"]}

InitSignature ==
    /\ pc = "start"
    /\ path = <<>>
    /\ sys_modules = <<>>
    /\ include_private = FALSE
    /\ include_imported = FALSE
    /\ obj \in Callables
    /\ name = <<>>
    /\ result = NoValue

ExtractSignature ==
    /\ pc = "start"
    /\ pc' = "done"
    /\ result' = extract_signature(obj)
    /\ UNCHANGED <<sys_modules, path, include_private, include_imported, obj, name>>

NextSignature == ExtractSignature

SpecSignature == InitSignature /\ [][NextSignature]_vars

(* Specification of inspect_class alone *)

\* the roles inspect.classify_class_attrs reports
Roles == {"method", "class method", "static method", "property", "data"}

\* the value of an attribute of each role
RoleObject(role) ==
    CASE role = "method" -> FuncObj(NsName)
      [] role = "class method" -> MethodObj(NsName)
      [] role = "static method" -> FuncObj(NsName)
      [] role = "property" -> Leaf({"property"}, None)
      [] role = "data" -> ScalarObj

\* the names an attribute may have, in the order dir() gives them
AttrNames == << <<"A">>, <<"_", "a">>, <<"a">>, <<"a", "a">> >>

\* a name of AttrNames that the type's table does not list
NoRow == <<>>

\* the rows a choice of <<role, own>> (or NoRow) for AttrNames[k..] gives
RECURSIVE RowsOf(_, _)
RowsOf(c, k) ==
    IF k > Len(AttrNames) THEN <<>>
    ELSE IF c[k] = NoRow THEN RowsOf(c, k + 1)
    ELSE <<Attr(AttrNames[k], c[k][1], c[k][2], RoleObject(c[k][1]))>> \o RowsOf(c, k + 1)

\* inspect.classify_class_attrs: rows of distinct names, sorted by name
AttrTables ==
    {RowsOf(c, 1) :
        c \in {d \in [1..Len(AttrNames) -> (Roles \X BOOLEAN) \cup {NoRow}] :
                 Cardinality({k \in 1..Len(AttrNames) : d[k] # NoRow}) <= MaxMembers}}

\* the qualified name inspect_class is handed
ClassPath == <<"a", ".", "A">>

InitClass ==
    /\ pc = "start"
    /\ path = ClassPath
    /\ sys_modules = <<>>
    /\ include_private \in BOOLEAN
    /\ include_imported = FALSE
    /\ obj \in {ClassObj(<<"A">>, <<"a">>, t) : t \in AttrTables}
    /\ name = <<>>
    /\ result = NoValue

InspectClass ==
    /\ pc = "start"
    /\ pc' = "done"
    /\ result' = inspect_class(obj, path, include_private)
    /\ UNCHANGED <<sys_modules, path, include_private, include_imported, obj, name>>

NextClass == InspectClass

SpecClass == InitClass /\ [][NextClass]_vars

(* Specification of classify_object alone *)

InitClassify ==
    /\ pc = "start"
    /\ path = <<>>
    /\ sys_modules = <<>>
    /\ include_private = FALSE
    /\ include_imported = FALSE
    /\ obj \in {Leaf(t, None) : t \in SUBSET Tests}
    /\ name \in NamesUpTo(MaxNameLen) \cup {<<>>}
    /\ result = NoValue

Classify ==
    /\ pc = "start"
    /\ pc' = "done"
    /\ result' = classify_object(obj, name)
    /\ UNCHANGED <<sys_modules, path, include_private, include_imported, obj, name>>

NextClassify == Classify

SpecClassify == InitClassify /\ [][NextClassify]_vars

----------------------------------------------------------------------------
(* Claims about resolve_dotted_path, under SpecResolve *)

Parts == Split(path)
Max(S) == CHOOSE x \in S : \A y \in S : y <= x

\* the provider loads parts[0..i) and every lookup along parts[i..) succeeds
FullyResolves(i) ==
    LET m == import_module(sys_modules, Join(SubSeq(Parts, 1, i)))
    IN m.ok /\ Traverse(m.val, SubSeq(Parts, i + 1, Len(Parts))).ok
Resolving == {i \in 1..Len(Parts) : FullyResolves(i)}

\* the entity candidate i names
CandidateObj(i) ==
    Traverse(import_module(sys_modules, Join(SubSeq(Parts, 1, i))).val,
             SubSeq(Parts, i + 1, Len(Parts))).val

\* candidate i fails with a load failure (ImportError) or a lookup failure (AttributeError)
FailsOrdinarily(i) ==
    LET m == import_module(sys_modules, Join(SubSeq(Parts, 1, i)))
    IN IF ~m.ok THEN m.exc \in {"ImportError", "ModuleNotFoundError"}
       ELSE LET t == Traverse(m.val, SubSeq(Parts, i + 1, Len(Parts)))
            IN ~t.ok /\ t.exc = "AttributeError"

\* C3: the scan runs from the longest prefix to the shortest and the first
\* fully resolving candidate is the result: what resolve returns is the
\* candidate of the longest fully resolving prefix (its entity, its namespace
\* path, its remaining names); it does return when every longer candidate
\* fails by a load or lookup failure; and a path without a separator is
\* resolved only as the whole string, with no remaining names.
C3_LongestPrefixWins ==
    pc = "done" =>
        /\ result.ok =>
            /\ Resolving # {}
            /\ result.val.module_path = Join(SubSeq(Parts, 1, Max(Resolving)))
            /\ result.val.attrs = SubSeq(Parts, Max(Resolving) + 1, Len(Parts))
            /\ result.val.obj = CandidateObj(Max(Resolving))
        /\ (\E i \in Resolving : \A j \in (i + 1)..Len(Parts) : FailsOrdinarily(j)) => result.ok
        /\ (Len(Parts) = 1 /\ result.ok) =>
            /\ result.val.module_path = path
            /\ result.val.attrs = <<>>
            /\ result.val.obj = import_module(sys_modules, path).val

\* a longer and a shorter prefix both resolve, to different entities, and the
\* longer one is returned
C3_Witness ==
    /\ pc = "done"
    /\ result.ok
    /\ Cardinality(Resolving) >= 2
    /\ \E i \in Resolving : i < Max(Resolving) /\ CandidateObj(i) # result.val.obj
    /\ result.val.obj = CandidateObj(Max(Resolving))

\* C4: resolve fails exactly when no candidate fully resolves, and then always
\* with the unresolved-path failure (ImportError "Cannot resolve path: <path>")
\* carrying the original path; no other kind of failure leaves resolve.
C4_OnlyUnresolvedPath ==
    pc = "done" =>
        /\ (~result.ok) <=> (Resolving = {})
        /\ (~result.ok) =>
            /\ result.exc = "ImportError"
            /\ result.msg = <<"Cannot resolve path: ", path>>

----------------------------------------------------------------------------
(* Claims about classify_object, under SpecClassify *)

\* the precedence table of the claim: the tests a rule needs, and its Tag
Precedence ==
    << <<{"ismodule", "has_path"}, "PACKAGE">>,
       <<{"ismodule"}, "MODULE">>,
       <<{"isclass"}, "CLASS">>,
       <<{"isbuiltin"}, "BUILTIN">>,
       <<{"isfunction"}, "FUNCTION">>,
       <<{"ismethod"}, "METHOD">>,
       <<{"classmethod"}, "CLASSMETHOD">>,
       <<{"staticmethod"}, "STATICMETHOD">>,
       <<{"property"}, "PROPERTY">> >>

Matching(o) == {k \in 1..Len(Precedence) : Precedence[k][1] \subseteq o.tests}
Min(S) == CHOOSE x \in S : \A y \in S : x <= y

\* C7: classify is total and follows the precedence order, first match wins;
\* only an entity matching none of the nine structural rules is tagged by the
\* name heuristic (upper-case binding name and scalar-like value: Constant,
\* otherwise Variable).
C7_Precedence ==
    pc = "done" =>
        /\ result \in MemberKind
        /\ Matching(obj) # {} => result = Precedence[Min(Matching(obj))][2]
        /\ Matching(obj) = {} =>
            result = (IF IsUpper(name) /\ "scalar" \in obj.tests THEN "CONSTANT" ELSE "VARIABLE")
        /\ result = "CONSTANT" => Matching(obj) = {}

\* the ambiguous fixture: an upper-case-named callable that is also scalar-like
C7_Witness ==
    /\ pc = "done"
    /\ IsUpper(name)
    /\ {"isfunction", "scalar"} \subseteq obj.tests
    /\ "isbuiltin" \notin obj.tests
    /\ result = "FUNCTION"

----------------------------------------------------------------------------
(* Claims about inspect_path, under Spec *)

SeqToSet(q) == {q[k] : k \in 1..Len(q)}

\* the records nested in a ClassInfo, in a ModuleInfo, and all records of an info
ClassRecords(c) ==
    SeqToSet(c.methods) \cup SeqToSet(c.class_methods) \cup SeqToSet(c.static_methods)
    \cup SeqToSet(c.properties) \cup SeqToSet(c.class_variables)
LeafRecords(m) == SeqToSet(m.functions) \cup SeqToSet(m.constants) \cup SeqToSet(m.variables)
ModuleRecords(m) == SeqToSet(m.classes) \cup LeafRecords(m)
AllRecords(info) ==
    {info} \cup
    (IF info.variant = "ModuleInfo"
     THEN ModuleRecords(info) \cup UNION {ClassRecords(c) : c \in SeqToSet(info.classes)}
     ELSE IF info.variant = "ClassInfo" THEN ClassRecords(info)
     ELSE {})

\* what the steps inside the try block of inspect_path come to
Attempt == inspect_path_try(sys_modules, path, include_private, include_imported)
Resolution == resolve_dotted_path(sys_modules, path)

C2_Degraded ==
    pc = "done" /\ ~Attempt.ok =>
        /\ result.ok
        /\ result.val.target = path
        /\ result.val.resolved_path = path
        /\ result.val.kind = "VARIABLE"
        /\ result.val.info.variant = "MemberInfo"
        /\ result.val.info.kind = "VARIABLE"
        /\ result.val.info.name = path
        /\ result.val.info.qualified_name = path
        /\ result.val.info.docstring = None
        /\ result.val.info.signature = None
        /\ result.val.info.source = None
        /\ result.val.error = Some(Attempt.msg)
        /\ (\A i \in 1..Len(Parts) : FailsOrdinarily(i)) =>
            /\ result.val.error = Some(<<"Cannot resolve path: ", path>>)
            /\ ~MsgIsEmpty(result.val.error[1])

\* a three-segment path of which the provider knows no prefix
C2_Witness ==
    /\ pc = "done"
    /\ Len(Parts) = 3
    /\ \A i \in 1..Len(Parts) : FailsOrdinarily(i)
    /\ result.ok
    /\ result.val.kind = "VARIABLE"
    /\ result.val.error # None
    /\ ~MsgIsEmpty(result.val.error[1])

\* C5: for every path that resolves and is inspected, resolved_path and
\* info.qualified_name equal the input path, whatever the entity.
C5_QualifiedNameIsPath ==
    pc = "done" /\ Attempt.ok =>
        /\ result.val.resolved_path = path
        /\ result.val.info.qualified_name = path

\* C9: on every record of a successful inspection (the info and every record
\* nested in it), is_private is true iff the name starts with the private
\* marker and is_dunder iff it starts and ends with the double marker.
C9_FlagsFollowName ==
    pc = "done" /\ result.ok /\ result.val.error = None =>
        \A r \in AllRecords(result.val.info) :
            /\ r.is_private = IsPrivateName(r.name)
            /\ r.is_dunder = IsDunderName(r.name)

\* C17: for every successful inspection the envelope and its info agree: the
\* envelope's Tag is the one classify assigns to the resolved entity,
\* info.kind is that Tag, and the variant matches it: ModuleInfo iff Package
\* or Module, with is_package true iff the Tag is Package (a package without
\* submodules included); ClassInfo iff Class; otherwise a MemberInfo with
\* its SourceInfo attached.
C17_EnvelopeAgrees ==
    pc = "done" /\ Attempt.ok =>
        /\ result.val.kind = classify_object(Resolution.val.obj, TerminalName(path))
        /\ result.val.info.kind = result.val.kind
        /\ (result.val.info.variant = "ModuleInfo") <=> (result.val.kind \in {"PACKAGE", "MODULE"})
        /\ result.val.info.variant = "ModuleInfo" =>
              (result.val.info.is_package <=> result.val.kind = "PACKAGE")
        /\ (result.val.info.variant = "ClassInfo") <=> (result.val.kind = "CLASS")
        /\ result.val.kind \notin {"PACKAGE", "MODULE", "CLASS"} =>
              /\ result.val.info.variant = "MemberInfo"
              /\ result.val.info.source # None

----------------------------------------------------------------------------
(* Claims about inspect_module, under SpecNamespace *)

Bindings == SeqToSet(obj.members)

\* the records of the returned ModuleInfo that binding b produced
RecordsOf(b) ==
    {r \in ModuleRecords(result.val) : r.qualified_name = Qualified(obj.name, b[1])}

\* the entity's declaring namespace is recorded and differs from the enumerated one
DeclaredElsewhere(o) == o.module # None /\ o.module[1] # obj.name

BucketedKinds == {"CLASS", "FUNCTION", "BUILTIN", "CONSTANT", "VARIABLE"}

PassesFilters(b) ==
    /\ "ismodule" \notin b[2].tests
    /\ IsPrivateName(b[1]) => include_private
    /\ DeclaredElsewhere(b[2]) => include_imported

Excluded(b) ==
    \/ IsPrivateName(b[1]) /\ ~include_private
    \/ DeclaredElsewhere(b[2]) /\ ~include_imported
    \/ "ismodule" \in b[2].tests

\* C6: every nested record's qualified_name is the enclosing record's
\* qualified_name, a separator and the record's own name.
C6_NestedQualifiedName ==
    pc = "done" /\ result.ok =>
        /\ \A r \in ModuleRecords(result.val) :
              r.qualified_name = Qualified(result.val.qualified_name, r.name)
        /\ \A c \in SeqToSet(result.val.classes) : \A r \in ClassRecords(c) :
              r.qualified_name = Qualified(c.qualified_name, r.name)

\* C8 as stated: an excluded binding is in no bucket, and every binding that
\* is no namespace and passes both filters is in a bucket.
C8_Original ==
    pc = "done" /\ result.ok =>
        \A b \in Bindings :
            /\ Excluded(b) => RecordsOf(b) = {}
            /\ PassesFilters(b) => RecordsOf(b) # {}

\* C8, amended: in the record namespace inspection returns, a private binding
\* is in no bucket when includePrivate is false, a binding declared elsewhere
\* is in no bucket when includeImported is false, a bound namespace is in no
\* bucket, and a binding that is no namespace and passes both filters is in a
\* bucket when its Tag is Class, Function, Builtin, Constant or Variable.
C8_Filters ==
    pc = "done" /\ result.ok =>
        \A b \in Bindings :
            /\ Excluded(b) => RecordsOf(b) = {}
            /\ (PassesFilters(b) /\ classify_object(b[2], b[1]) \in BucketedKinds)
                  => RecordsOf(b) # {}

\* with includePrivate true and includeImported false, a private binding is
\* in a bucket and a binding declared elsewhere is in none
C8_Witness ==
    /\ pc = "done"
    /\ result.ok
    /\ include_private
    /\ ~include_imported
    /\ \E b \in Bindings : IsPrivateName(b[1]) /\ RecordsOf(b) # {}
    /\ \E b \in Bindings : DeclaredElsewhere(b[2]) /\ RecordsOf(b) = {}

\* C10: every record of a bucket has is_imported true iff the entity's
\* declaring namespace differs from the name of the enumerated namespace.
C10_ImportedFlag ==
    pc = "done" /\ result.ok =>
        \A b \in Bindings : \A r \in RecordsOf(b) :
            r.is_imported = DeclaredElsewhere(b[2])

\* a binding whose extraction fails in a per-entity provider step
Failing(b) == b[2].fault # "none"

\* C11: one failing member does not abort the scan: when the extraction of
\* one binding fails in a per-entity step, namespace inspection still
\* returns a record, and that record holds every sibling that passes the
\* filters and has a bucketed Tag.
C11_FailureContained ==
    pc = "done" =>
        /\ result.ok
        /\ \A b \in Bindings :
              (~Failing(b) /\ PassesFilters(b) /\ classify_object(b[2], b[1]) \in BucketedKinds)
                  => RecordsOf(b) # {}

\* the names of a list of records
NamesOf(rs) == [k \in 1..Len(rs) |-> rs[k].name]

\* ascending in the order of sorted(): no later string is less than an earlier one
Ascending(xs) == \A i, j \in 1..Len(xs) : i < j => ~StrLess(xs[j], xs[i])

\* C15: every list namespace or class inspection returns is sorted ascending
\* by name: submodules, classes, functions, constants and variables of the
\* ModuleInfo, and the five buckets of every ClassInfo in it.
C15_ListsSorted ==
    pc = "done" /\ result.ok =>
        /\ Ascending(result.val.submodules)
        /\ Ascending(NamesOf(result.val.classes))
        /\ Ascending(NamesOf(result.val.functions))
        /\ Ascending(NamesOf(result.val.constants))
        /\ Ascending(NamesOf(result.val.variables))
        /\ \A c \in SeqToSet(result.val.classes) :
              /\ Ascending(NamesOf(c.methods))
              /\ Ascending(NamesOf(c.class_methods))
              /\ Ascending(NamesOf(c.static_methods))
              /\ Ascending(NamesOf(c.properties))
              /\ Ascending(NamesOf(c.class_variables))

\* the provider lists the submodules out of order and binds two types whose
\* own names are in the opposite order of their binding names; a type with
\* two methods is among them
C15_Witness ==
    /\ pc = "done"
    /\ result.ok
    /\ ~Ascending(obj.submodules)
    /\ Len(result.val.submodules) = Len(obj.submodules)
    /\ Len(result.val.classes) = 2
    /\ StrLess(obj.members[2][2].name, obj.members[1][2].name)
    /\ \E c \in SeqToSet(result.val.classes) : Len(c.methods) = 2

\* C16: every value representation attached to a Constant or Variable member
\* of the namespace, or to a data attribute of a type in it, is at most
\* max_len characters long, whether it is the full rendering, the truncated
\* one or the type-name placeholder used when rendering fails.
C16_ValueReprBounded ==
    pc = "done" /\ result.ok =>
        \A r \in AllRecords(result.val) :
            r.value_repr # None => r.value_repr[1].len <= max_len

\* the buckets of a ModuleInfo, the Tags each may hold, and the bucket of a Tag
Buckets == {"classes", "functions", "constants", "variables"}
BucketTags ==
    [f \in Buckets |->
        CASE f = "classes" -> {"CLASS"}
          [] f = "functions" -> {"FUNCTION", "BUILTIN"}
          [] f = "constants" -> {"CONSTANT"}
          [] f = "variables" -> {"VARIABLE"}]
BucketOf(tag) == CHOOSE f \in Buckets : tag \in BucketTags[f]

\* the positions of bucket f that hold the record of binding b
InBucket(f, b) ==
    {k \in 1..Len(result.val[f]) :
        result.val[f][k].qualified_name = Qualified(obj.name, b[1])}

\* C18: each binding that passes the private, namespace and imported filters
\* contributes exactly one record to exactly one bucket when its Tag is
\* Class, Function, Builtin, Constant or Variable, and no record to any
\* bucket when it has another Tag; no bucket holds a record whose Tag is
\* outside the bucket's own Tags.
C18_OneBucketPerTag ==
    pc = "done" /\ result.ok =>
        /\ \A b \in Bindings : PassesFilters(b) =>
              \A f \in Buckets :
                  Cardinality(InBucket(f, b)) =
                      (IF classify_object(b[2], b[1]) \in BucketedKinds
                          /\ f = BucketOf(classify_object(b[2], b[1]))
                       THEN 1 ELSE 0)
        /\ \A f \in Buckets : \A k \in 1..Len(result.val[f]) :
              result.val[f][k].kind \in BucketTags[f]

\* a bound method and a function both pass the filters: the function is in
\* functions, the bound method in no bucket
C18_Witness ==
    /\ pc = "done"
    /\ result.ok
    /\ \E b, c \in Bindings :
          /\ PassesFilters(b) /\ classify_object(b[2], b[1]) = "METHOD"
          /\ \A f \in Buckets : InBucket(f, b) = {}
          /\ PassesFilters(c) /\ classify_object(c[2], c[1]) = "FUNCTION"
          /\ InBucket("functions", c) # {}

----------------------------------------------------------------------------
(* Claims about extract_source, under SpecSource *)

\* C12: locate never fails outward: it returns a SourceInfo for every entity
\* and every failure of the source and file queries; without source text the
\* result has is_builtin true, no text, no line span and the provider's path
\* or none; with text it has is_builtin false and end_line = start_line +
\* number of lines - 1.
C12_LocateTotal ==
    pc = "done" =>
        /\ result.ok
        /\ obj.source # "text" =>
            /\ result.val.is_builtin
            /\ result.val.source = None
            /\ result.val.start_line = None /\ result.val.end_line = None
            /\ result.val.file_path \in {None, Some("path")}
        /\ obj.source = "text" =>
            /\ ~result.val.is_builtin
            /\ result.val.source # None
            /\ result.val.end_line = Some(result.val.start_line[1] + obj.nlines - 1)

----------------------------------------------------------------------------
(* Claims about extract_signature, under SpecSignature *)

\* the five ParameterKind values, by the provider kind they stand for
KindOrder == <<"POSITIONAL_ONLY", "POSITIONAL_OR_KEYWORD", "VAR_POSITIONAL",
               "KEYWORD_ONLY", "VAR_KEYWORD">>

\* C13: signature extraction preserves the provider's parameter list: one
\* ParameterInfo per provider parameter, in the same order, the kind mapped
\* one-to-one onto the five ParameterKind values, has_default true exactly
\* when the parameter has a default, a rendered default exactly when
\* has_default; when the provider cannot introspect the callable the result
\* is absent, never an empty parameter list.
C13_SignaturePreserved ==
    pc = "done" =>
        /\ (obj.fault = "none" /\ obj.sig = "params") =>
            /\ result.ok /\ result.val # None
            /\ Len(result.val[1].parameters) = Len(obj.params)
            /\ \A k \in 1..Len(obj.params) :
                  LET info == result.val[1].parameters[k]
                      prm == obj.params[k]
                  IN /\ info.name = prm.name
                     /\ info.kind = KindOrder[prm.kind + 1]
                     /\ info.kind \in ParameterKind
                     /\ info.has_default = prm.has_default
                     /\ (info.default # None) <=> info.has_default
        /\ (obj.fault = "none" /\ obj.sig \in {"ValueError", "TypeError"}) =>
            /\ result.ok
            /\ result.val = None

\* the parameters (b=1, *args, c): a default, a variadic and a keyword-only
\* one, in that order in the result
C13_Witness ==
    /\ pc = "done"
    /\ result.ok /\ result.val # None
    /\ Len(result.val[1].parameters) = 3
    /\ result.val[1].parameters[1].kind = "POSITIONAL_OR_KEYWORD"
    /\ result.val[1].parameters[1].has_default
    /\ result.val[1].parameters[1].default # None
    /\ result.val[1].parameters[2].kind = "VAR_POSITIONAL"
    /\ result.val[1].parameters[3].kind = "KEYWORD_ONLY"
    /\ ~result.val[1].parameters[3].has_default
    /\ result.val[1].parameters[3].default = None

----------------------------------------------------------------------------
(* Claims about inspect_class, under SpecClass *)

\* the bucket and the Tag of each role
RoleBucket ==
    [r \in Roles |->
        CASE r = "method" -> "methods"
          [] r = "class method" -> "class_methods"
          [] r = "static method" -> "static_methods"
          [] r = "property" -> "properties"
          [] r = "data" -> "class_variables"]
RoleTag ==
    [r \in Roles |->
        CASE r = "method" -> "METHOD"
          [] r = "class method" -> "CLASSMETHOD"
          [] r = "static method" -> "STATICMETHOD"
          [] r = "property" -> "PROPERTY"
          [] r = "data" -> "DATA"]

Rows == SeqToSet(obj.attrs)
PassesPrivate(a) == include_private \/ ~IsPrivateName(a.name)

\* the positions of bucket f of the returned ClassInfo that hold a record named nm
Entries(f, nm) == {k \in 1..Len(result.val[f]) : result.val[f][k].name = nm}

====
